---- MODULE Spec2Model ----
(***************************************************************************)
(* dotenv-enhanced: single-file load/loadSync and the layered loaders      *)
(* loadEnvSync/mod of src/mod.ts, over a process environment table, a file *)
(* system and the module-level tracking set SET_VARIABLES.                 *)
(***************************************************************************)
EXTENDS Naturals, Sequences, FiniteSets, TLC

\* ------------------------------------------------------------------------
\* Bounds and domains
\* ------------------------------------------------------------------------

\* Largest number of KEY=VALUE entries in a file of the model.
MaxFileLen == 2

\* JavaScript undefined: an absent environment variable, an omitted option.
Undefined == "undefined"

\* JavaScript null (LoadOptions.envPath may be null).
Null == "null"

\* Variable names of the model; NODE_ENV is the environment indicator.
Keys == {"NODE_ENV", "K"}

\* Variable values of the model (the empty string is a legal value).
Values == {"", "dev"}

\* A value only the program's surroundings give NODE_ENV: path-traversal text.
Traversal == "../prod"

\* The values a variable can hold in the environment of the model.
EnvValues(k) == IF k = "NODE_ENV" THEN Values \cup {Traversal} ELSE Values

\* The environment tables of the model.
Envs ==
  {e \in [Keys -> Values \cup {Traversal, Undefined}] :
     \A k \in Keys : e[k] \in EnvValues(k) \cup {Undefined}}

\* Deno.errors.NotFound and one other I/O failure (the path is a directory).
NotFound == "NotFound"

IsADirectory == "IsADirectory"

NoError == "none"

\* The files whose content varies; every other path does not exist.
Paths == {".env", ".env.dev"}

\* The tasks (call sites) of the model; the sequential specification uses one.
Tasks == {1, 2}

SeqTasks == {1}

Range(s) == {s[i] : i \in 1..Len(s)}

\* Parsed file contents: Object.entries order, one entry per key.
Configs ==
  {c \in UNION {[1..n -> Keys \X Values] : n \in 0..MaxFileLen} :
     \A i, j \in 1..Len(c) : i # j => c[i][1] # c[j][1]}

ConfigKeys(conf) == {conf[i][1] : i \in 1..Len(conf)}

\* The value a parsed mapping holds for key k (k must be a key of conf).
ConfigGet(conf, k) ==
  LET i == CHOOSE j \in 1..Len(conf) : conf[j][1] = k IN conf[i][2]

\* What reading and parsing a path gives: the parsed entries or an error.
FileStates ==
  {[err |-> NoError, conf |-> c] : c \in Configs}
    \cup {[err |-> e, conf |-> <<>>] : e \in {NotFound, IsADirectory}}

VARIABLES
  env,            \* Deno.env: Keys -> Values or Undefined
  fs,             \* the file system: Paths -> FileStates
  SET_VARIABLES,  \* the tracking set, in insertion order
  call            \* per task: the call in progress or last completed

vars == <<env, fs, SET_VARIABLES, call>>

\* ------------------------------------------------------------------------
\* JavaScript helpers
\* ------------------------------------------------------------------------

\* Truthiness of a string-or-undefined-or-null value (if (x), x ? a : b, !x).
Truthy(x) == x # Undefined /\ x # Null /\ x # ""

\* Mutant: add() appends without looking for the key (an array, not a Set).
SetAdd_Always(s, k) == Append(s, k)

\* Mutant: add() replaces the tracking set by the new key.
SetAdd_Replace(s, k) == <<k>>

\* Set.prototype.add on the insertion-ordered tracking set.
SetAdd(s, k) == IF k \in Range(s) THEN s ELSE Append(s, k)

RECURSIVE Join_Reversed(_)
\* Mutant: the keys are joined last to first.
Join_Reversed(s) ==
  IF s = <<>> THEN ""
  ELSE IF Len(s) = 1 THEN s[1]
  ELSE Join_Reversed(Tail(s)) \o ", " \o s[1]

RECURSIVE Join(_)
\* Array.prototype.join(", ").
Join(s) ==
  IF s = <<>> THEN ""
  ELSE IF Len(s) = 1 THEN s[1]
  ELSE s[1] \o ", " \o Join(Tail(s))

\* ------------------------------------------------------------------------
\* File Loader
\* ------------------------------------------------------------------------

\* Deno.readTextFileSync / Deno.readTextFile followed by parse: the parsed
\* entries of an existing file, or the error the read raises.
readTextFile(files, filepath) ==
  IF filepath \in DOMAIN files THEN files[filepath]
  ELSE [err |-> NotFound, conf |-> <<>>]

\* Mutant: NotFound is rethrown like any other error.
parseFileSync_Rethrow(files, filepath) ==
  LET r == readTextFile(files, filepath) IN
    IF r.err = NoError THEN [threw |-> FALSE, error |-> NoError, conf |-> r.conf]
    ELSE [threw |-> TRUE, error |-> r.err, conf |-> <<>>]

\* Mutant: every read error becomes the empty mapping.
parseFileSync_Swallow(files, filepath) ==
  LET r == readTextFile(files, filepath) IN
    IF r.err = NoError THEN [threw |-> FALSE, error |-> NoError, conf |-> r.conf]
    ELSE [threw |-> FALSE, error |-> NoError, conf |-> <<>>]

\* parseFileSync / parseFile: NotFound becomes the empty mapping, any other
\* error is rethrown.
parseFileSync(files, filepath) ==
  LET r == readTextFile(files, filepath) IN
    IF r.err = NoError THEN [threw |-> FALSE, error |-> NoError, conf |-> r.conf]
    ELSE IF r.err = NotFound
      THEN [threw |-> FALSE, error |-> NoError, conf |-> <<>>]
      ELSE [threw |-> TRUE, error |-> r.err, conf |-> <<>>]

\* ------------------------------------------------------------------------
\* Single-file load and export
\* ------------------------------------------------------------------------

\* Mutant: null takes the default too (envPath ?? ".env").
DefaultEnvPath_Nullish(envPath) ==
  IF envPath = Undefined \/ envPath = Null THEN ".env" ELSE envPath

\* The destructuring default of LoadOptions.envPath: only an omitted
\* (undefined) field takes the default ".env".
DefaultEnvPath(envPath) == IF envPath = Undefined THEN ".env" ELSE envPath

\* The paths a load/loadSync call reads: none when envPath is falsy.
LoadReads(envPath) ==
  IF Truthy(DefaultEnvPath(envPath)) THEN <<DefaultEnvPath(envPath)>> ELSE <<>>

\* const conf = envPath ? parseFileSync(envPath) : {}
LoadConf(files, envPath) ==
  IF Truthy(DefaultEnvPath(envPath))
    THEN parseFileSync(files, DefaultEnvPath(envPath))
    ELSE [threw |-> FALSE, error |-> NoError, conf |-> <<>>]

RECURSIVE ExportLoop_Falsy(_, _)
\* Mutant: the export loop skips a key only if its current value is truthy.
ExportLoop_Falsy(conf, e) ==
  IF conf = <<>> THEN e
  ELSE LET key == Head(conf)[1]
           value == Head(conf)[2]
       IN ExportLoop_Falsy(Tail(conf),
                           IF Truthy(e[key]) THEN e ELSE [e EXCEPT ![key] = value])

RECURSIVE ExportLoop_Clobber(_, _)
\* Mutant: the export loop sets every key of the file.
ExportLoop_Clobber(conf, e) ==
  IF conf = <<>> THEN e
  ELSE ExportLoop_Clobber(Tail(conf), [e EXCEPT ![Head(conf)[1]] = Head(conf)[2]])

RECURSIVE ExportLoop(_, _)
\* The export loop: a key is set only if Deno.env.get(key) is undefined.
ExportLoop(conf, e) ==
  IF conf = <<>> THEN e
  ELSE LET key == Head(conf)[1]
           value == Head(conf)[2]
       IN ExportLoop(Tail(conf),
                     IF e[key] # Undefined THEN e ELSE [e EXCEPT ![key] = value])

\* The keys the export loop writes (Deno.env.set): those with no entry.
ExportWritten(conf, e) == {k \in ConfigKeys(conf) : e[k] = Undefined}

\* Mutant: the export step runs whatever the export option says.
LoadExport_Always(conf, export, e) == ExportLoop(conf, e)

\* The environment after the export step of load/loadSync.
LoadExport(conf, export, e) == IF export THEN ExportLoop(conf, e) ELSE e

\* Mutant: loadSync exports every key of the file, present or not.
loadSync_Clobber(files, e, envPath, export) ==
  LET p == LoadConf(files, envPath) IN
    [threw |-> p.threw, error |-> p.error, conf |-> p.conf,
     env |-> IF p.threw \/ ~export THEN e ELSE ExportLoop_Clobber(p.conf, e),
     wrote |-> IF p.threw \/ ~export THEN {} ELSE ConfigKeys(p.conf),
     reads |-> LoadReads(envPath)]

\* loadSync(options): the failure or the returned mapping, the environment
\* afterwards and the paths read.
loadSync(files, e, envPath, export) ==
  LET p == LoadConf(files, envPath) IN
    [threw |-> p.threw, error |-> p.error, conf |-> p.conf,
     env |-> IF p.threw THEN e ELSE LoadExport(p.conf, export, e),
     wrote |-> IF p.threw \/ ~export THEN {} ELSE ExportWritten(p.conf, e),
     reads |-> LoadReads(envPath)]

\* ------------------------------------------------------------------------
\* Layered load
\* ------------------------------------------------------------------------

\* Mutant: the base keys are not tracked.
TrackBase_None(conf, s) == s

RECURSIVE TrackBase(_, _)
\* for (const key of Object.keys(baseConfig)) SET_VARIABLES.add(key)
TrackBase(conf, s) ==
  IF conf = <<>> THEN s ELSE TrackBase(Tail(conf), SetAdd(s, Head(conf)[1]))

\* Mutant: the overlay loop overwrites every key.
OverlayMayWrite_Always(key, e, s) == TRUE

\* The overlay write condition of one key.
OverlayMayWrite(key, e, s) == key \in Range(s) \/ ~Truthy(e[key])

RECURSIVE OverlayLoop_TrackAll(_, _, _)
\* Mutant: the overlay loop tracks a key also when it discards the value.
OverlayLoop_TrackAll(conf, e, s) ==
  IF conf = <<>> THEN [env |-> e, set |-> s]
  ELSE LET key == Head(conf)[1]
           value == Head(conf)[2]
       IN IF OverlayMayWrite(key, e, s)
            THEN OverlayLoop_TrackAll(Tail(conf), [e EXCEPT ![key] = value],
                                      SetAdd(s, key))
            ELSE OverlayLoop_TrackAll(Tail(conf), e, SetAdd(s, key))

RECURSIVE OverlayLoop(_, _, _)
\* The overlay merge loop: write and track a key when the condition holds.
OverlayLoop(conf, e, s) ==
  IF conf = <<>> THEN [env |-> e, set |-> s]
  ELSE LET key == Head(conf)[1]
           value == Head(conf)[2]
       IN IF OverlayMayWrite(key, e, s)
            THEN OverlayLoop(Tail(conf), [e EXCEPT ![key] = value], SetAdd(s, key))
            ELSE OverlayLoop(Tail(conf), e, s)

\* The keys the overlay loop writes (Deno.env.set); each key occurs once, so
\* its condition is the one at the start of the loop.
OverlayWritten(conf, e, s) ==
  {k \in ConfigKeys(conf) : OverlayMayWrite(k, e, s)}

\* Mutant: the overlay path keeps only the last path segment of NODE_ENV.
OverlayPath_Sanitised(nodeEnv) ==
  IF nodeEnv = Traversal THEN ".env.prod" ELSE ".env." \o nodeEnv

\* The overlay path `.env.${nodeEnv}`.
OverlayPath(nodeEnv) == ".env." \o nodeEnv

\* The console.log line of a layered load.
Summary(s) == "Hydrated environment variables: " \o Join(s)

\* Variant of loadEnvSync whose base export overwrites the values in place.
loadEnvSync_Refresh(files, e, s) ==
  LET nodeEnv == e["NODE_ENV"]
      base == loadSync_Clobber(files, e, Undefined, TRUE)
  IN IF base.threw
       THEN [threw |-> TRUE, error |-> base.error, env |-> base.env, set |-> s,
             reads |-> base.reads, log |-> <<>>, nodeEnv |-> nodeEnv, wrote |-> base.wrote]
       ELSE LET s1 == TrackBase(base.conf, s) IN
         IF Truthy(nodeEnv)
           THEN LET ov == loadSync(files, base.env, OverlayPath(nodeEnv), FALSE) IN
             IF ov.threw
               THEN [threw |-> TRUE, error |-> ov.error, env |-> ov.env, set |-> s1,
                     reads |-> base.reads \o ov.reads, log |-> <<>>,
                     nodeEnv |-> nodeEnv, wrote |-> base.wrote]
               ELSE LET m == OverlayLoop(ov.conf, ov.env, s1) IN
                    [threw |-> FALSE, error |-> NoError, env |-> m.env,
                     set |-> m.set, reads |-> base.reads \o ov.reads,
                     log |-> <<Summary(m.set)>>, nodeEnv |-> nodeEnv,
                     wrote |-> base.wrote \cup OverlayWritten(ov.conf, ov.env, s1)]
           ELSE [threw |-> FALSE, error |-> NoError, env |-> base.env, set |-> s1,
                 reads |-> base.reads, log |-> <<Summary(s1)>>,
                 nodeEnv |-> nodeEnv, wrote |-> base.wrote]

\* Variant of loadEnvSync that undoes the base load when the overlay fails.
loadEnvSync_Rollback(files, e, s) ==
  LET nodeEnv == e["NODE_ENV"]
      base == loadSync(files, e, Undefined, TRUE)
  IN IF base.threw
       THEN [threw |-> TRUE, error |-> base.error, env |-> base.env, set |-> s,
             reads |-> base.reads, log |-> <<>>, nodeEnv |-> nodeEnv, wrote |-> base.wrote]
       ELSE LET s1 == TrackBase(base.conf, s) IN
         IF Truthy(nodeEnv)
           THEN LET ov == loadSync(files, base.env, OverlayPath(nodeEnv), FALSE) IN
             IF ov.threw
               THEN [threw |-> TRUE, error |-> ov.error, env |-> e, set |-> s,
                     reads |-> base.reads \o ov.reads, log |-> <<>>,
                     nodeEnv |-> nodeEnv, wrote |-> {}]
               ELSE LET m == OverlayLoop(ov.conf, ov.env, s1) IN
                    [threw |-> FALSE, error |-> NoError, env |-> m.env,
                     set |-> m.set, reads |-> base.reads \o ov.reads,
                     log |-> <<Summary(m.set)>>, nodeEnv |-> nodeEnv,
                     wrote |-> base.wrote \cup OverlayWritten(ov.conf, ov.env, s1)]
           ELSE [threw |-> FALSE, error |-> NoError, env |-> base.env, set |-> s1,
                 reads |-> base.reads, log |-> <<Summary(s1)>>,
                 nodeEnv |-> nodeEnv, wrote |-> base.wrote]

\* Variant of loadEnvSync that reads NODE_ENV only after the base export.
loadEnvSync_LateIndicator(files, e, s) ==
  LET base == loadSync(files, e, Undefined, TRUE)
      nodeEnv == base.env["NODE_ENV"]
  IN IF base.threw
       THEN [threw |-> TRUE, error |-> base.error, env |-> base.env, set |-> s,
             reads |-> base.reads, log |-> <<>>, nodeEnv |-> nodeEnv, wrote |-> base.wrote]
       ELSE LET s1 == TrackBase(base.conf, s) IN
         IF Truthy(nodeEnv)
           THEN LET ov == loadSync(files, base.env, OverlayPath(nodeEnv), FALSE) IN
             IF ov.threw
               THEN [threw |-> TRUE, error |-> ov.error, env |-> ov.env, set |-> s1,
                     reads |-> base.reads \o ov.reads, log |-> <<>>,
                     nodeEnv |-> nodeEnv, wrote |-> base.wrote]
               ELSE LET m == OverlayLoop(ov.conf, ov.env, s1) IN
                    [threw |-> FALSE, error |-> NoError, env |-> m.env,
                     set |-> m.set, reads |-> base.reads \o ov.reads,
                     log |-> <<Summary(m.set)>>, nodeEnv |-> nodeEnv,
                     wrote |-> base.wrote \cup OverlayWritten(ov.conf, ov.env, s1)]
           ELSE [threw |-> FALSE, error |-> NoError, env |-> base.env, set |-> s1,
                 reads |-> base.reads, log |-> <<Summary(s1)>>,
                 nodeEnv |-> nodeEnv, wrote |-> base.wrote]

\* loadEnvSync(): the outcome of the whole call from environment e, tracking
\* set s and the given files.
loadEnvSync(files, e, s) ==
  LET nodeEnv == e["NODE_ENV"]
      base == loadSync(files, e, Undefined, TRUE)
  IN IF base.threw
       THEN [threw |-> TRUE, error |-> base.error, env |-> base.env, set |-> s,
             reads |-> base.reads, log |-> <<>>, nodeEnv |-> nodeEnv, wrote |-> base.wrote]
       ELSE LET s1 == TrackBase(base.conf, s) IN
         IF Truthy(nodeEnv)
           THEN LET ov == loadSync(files, base.env, OverlayPath(nodeEnv), FALSE) IN
             IF ov.threw
               THEN [threw |-> TRUE, error |-> ov.error, env |-> ov.env, set |-> s1,
                     reads |-> base.reads \o ov.reads, log |-> <<>>,
                     nodeEnv |-> nodeEnv, wrote |-> base.wrote]
               ELSE LET m == OverlayLoop(ov.conf, ov.env, s1) IN
                    [threw |-> FALSE, error |-> NoError, env |-> m.env,
                     set |-> m.set, reads |-> base.reads \o ov.reads,
                     log |-> <<Summary(m.set)>>, nodeEnv |-> nodeEnv,
                     wrote |-> base.wrote \cup OverlayWritten(ov.conf, ov.env, s1)]
           ELSE [threw |-> FALSE, error |-> NoError, env |-> base.env, set |-> s1,
                 reads |-> base.reads, log |-> <<Summary(s1)>>,
                 nodeEnv |-> nodeEnv, wrote |-> base.wrote]

\* ------------------------------------------------------------------------
\* Utilities (utils.ts)
\* ------------------------------------------------------------------------

\* The variable values the utility functions are applied to.
Samples ==
  {"true", "t", "1", "y", "yes", "on", "enabled", "active", "TRUE", "True",
   "YES", "YeS", "T", "Y", "ON", "ENABLED", "EnAbLeD", "Active", "false",
   "f", "0", "n", "no", "off", "disabled", "inactive", "", "random_value",
   " true", "true ", "yes ", "tru", "truee", "11", "NO", "False"}

\* The characters of a sample string, in order.
Chars(str) ==
  CASE str = "true" -> <<"t", "r", "u", "e">>
    [] str = "t" -> <<"t">>
    [] str = "1" -> <<"1">>
    [] str = "y" -> <<"y">>
    [] str = "yes" -> <<"y", "e", "s">>
    [] str = "on" -> <<"o", "n">>
    [] str = "enabled" -> <<"e", "n", "a", "b", "l", "e", "d">>
    [] str = "active" -> <<"a", "c", "t", "i", "v", "e">>
    [] str = "TRUE" -> <<"T", "R", "U", "E">>
    [] str = "True" -> <<"T", "r", "u", "e">>
    [] str = "YES" -> <<"Y", "E", "S">>
    [] str = "YeS" -> <<"Y", "e", "S">>
    [] str = "T" -> <<"T">>
    [] str = "Y" -> <<"Y">>
    [] str = "ON" -> <<"O", "N">>
    [] str = "ENABLED" -> <<"E", "N", "A", "B", "L", "E", "D">>
    [] str = "EnAbLeD" -> <<"E", "n", "A", "b", "L", "e", "D">>
    [] str = "Active" -> <<"A", "c", "t", "i", "v", "e">>
    [] str = "false" -> <<"f", "a", "l", "s", "e">>
    [] str = "f" -> <<"f">>
    [] str = "0" -> <<"0">>
    [] str = "n" -> <<"n">>
    [] str = "no" -> <<"n", "o">>
    [] str = "off" -> <<"o", "f", "f">>
    [] str = "disabled" -> <<"d", "i", "s", "a", "b", "l", "e", "d">>
    [] str = "inactive" -> <<"i", "n", "a", "c", "t", "i", "v", "e">>
    [] str = "" -> <<>>
    [] str = "random_value" -> <<"r", "a", "n", "d", "o", "m", "_", "v", "a", "l", "u", "e">>
    [] str = " true" -> <<" ", "t", "r", "u", "e">>
    [] str = "true " -> <<"t", "r", "u", "e", " ">>
    [] str = "yes " -> <<"y", "e", "s", " ">>
    [] str = "tru" -> <<"t", "r", "u">>
    [] str = "truee" -> <<"t", "r", "u", "e", "e">>
    [] str = "11" -> <<"1", "1">>
    [] str = "NO" -> <<"N", "O">>
    [] str = "False" -> <<"F", "a", "l", "s", "e">>

UpperCaseLetters ==
  <<"A", "B", "C", "D", "E", "F", "G", "H", "I", "J", "K", "L", "M",
    "N", "O", "P", "Q", "R", "S", "T", "U", "V", "W", "X", "Y", "Z">>

LowerCaseLetters ==
  <<"a", "b", "c", "d", "e", "f", "g", "h", "i", "j", "k", "l", "m",
    "n", "o", "p", "q", "r", "s", "t", "u", "v", "w", "x", "y", "z">>

\* The lower-case form of one character.
LowerChar(c) ==
  IF \E i \in 1..Len(UpperCaseLetters) : UpperCaseLetters[i] = c
    THEN LowerCaseLetters[CHOOSE i \in 1..Len(UpperCaseLetters) :
                            UpperCaseLetters[i] = c]
    ELSE c

\* Mutant: the value is compared as it is, case included.
toLowerCase_Identity(chars) == chars

\* String.prototype.toLowerCase, character by character.
toLowerCase(chars) == [i \in 1..Len(chars) |-> LowerChar(chars[i])]

\* const TRUTHY_VALUES, each word as its characters.
TRUTHY_VALUES ==
  <<<<"t", "r", "u", "e">>,
    <<"t">>,
    <<"1">>,
    <<"y">>,
    <<"y", "e", "s">>,
    <<"o", "n">>,
    <<"e", "n", "a", "b", "l", "e", "d">>,
    <<"a", "c", "t", "i", "v", "e">>>>

\* isTruthyString(value): TRUTHY_VALUES.includes(value.toLowerCase()).
isTruthyString(value) == toLowerCase(value) \in Range(TRUTHY_VALUES)

\* isEnvVarTruthy(key): an absent variable counts as the empty string.
isEnvVarTruthy(e, key) ==
  LET value == toLowerCase(Chars(IF e[key] = Undefined THEN "" ELSE e[key]))
  IN isTruthyString(value)

\* ------------------------------------------------------------------------
\* State machine
\* ------------------------------------------------------------------------

\* The call record of a task that has made no call since the last change
\* made from outside the loaders.
IdleCall ==
  [op |-> "idle", pc |-> "idle", envPath |-> Undefined, export |-> FALSE,
   nodeEnv |-> Undefined, conf |-> <<>>,
   env0 |-> [k \in Keys |-> Undefined], set0 |-> <<>>,
   reads |-> <<>>, error |-> NoError, result |-> <<>>, log |-> <<>>,
   follows |-> FALSE, prevNodeEnv |-> Undefined, warn |-> <<>>,
   key |-> "", truthy |-> FALSE, wrote |-> {}, prevWrote |-> {},
   prevExported |-> {}, prevBase |-> <<>>, prevOverlay |-> {}]

\* A call that starts now: env0 and set0 record the state it starts from.
NewCall(op, envPath, export) ==
  [IdleCall EXCEPT !.op = op, !.envPath = envPath, !.export = export,
                   !.env0 = env, !.set0 = SET_VARIABLES]

\* A layered load starts from an idle task, directly after a layered load
\* of the same task that returned, or directly after an exporting loadSync
\* or load of the same task that returned (nothing happens between the two
\* calls).
CanStartLayered(t) ==
  \/ call[t].pc = "idle"
  \/ /\ call[t].op \in {"loadEnvSync", "mod"}
     /\ call[t].pc = "returned"
     /\ ~call[t].follows
  \/ /\ call[t].op \in {"loadSync", "load"}
     /\ call[t].pc = "returned"
     /\ call[t].export
  \/ call[t].pc = "rewritten"

\* A layered load that starts now; when it directly follows another one,
\* the NODE_ENV that one read is kept in prevNodeEnv; when it directly
\* follows a loadSync or load, the keys that call exported are kept in
\* prevWrote.
NewLayeredCall(t, op) ==
  [NewCall(op, Undefined, TRUE) EXCEPT
     !.follows = (call[t].pc = "returned"
                    /\ call[t].op \in {"loadEnvSync", "mod"}),
     !.prevNodeEnv = call[t].nodeEnv,
     !.prevWrote = IF call[t].op \in {"loadSync", "load"}
                     THEN call[t].wrote ELSE {},
     !.prevExported = IF call[t].pc = "rewritten"
                        THEN call[t].prevExported ELSE {},
     !.prevBase = IF call[t].pc = "rewritten" THEN call[t].prevBase ELSE <<>>,
     !.prevOverlay = IF call[t].pc = "rewritten"
                       THEN call[t].prevOverlay ELSE {}]

\* The envPath options of the model: omitted, null, "" and an explicit path.
PathOptions == {Undefined, Null, "", ".env.dev"}

Init ==
  /\ env \in Envs
  /\ fs \in [Paths -> FileStates]
  /\ SET_VARIABLES = <<>>
  /\ call = [t \in Tasks |-> IdleCall]

\* Variant of loadSync(options) that tracks the keys of an exporting call.
LoadSyncCall_Tracking(t, envPath, export) ==
  /\ call[t].pc = "idle"
  /\ LET r == loadSync(fs, env, envPath, export) IN
       /\ env' = r.env
       /\ SET_VARIABLES' = IF export /\ ~r.threw
                             THEN TrackBase(r.conf, SET_VARIABLES)
                             ELSE SET_VARIABLES
       /\ call' = [call EXCEPT ![t] =
            [NewCall("loadSync", envPath, export) EXCEPT
               !.pc = IF r.threw THEN "threw" ELSE "returned",
               !.reads = r.reads, !.error = r.error, !.result = r.conf,
               !.wrote = r.wrote]]
  /\ UNCHANGED fs

\* loadSync(options), one synchronous step.
LoadSyncCall(t, envPath, export) ==
  /\ call[t].pc = "idle"
  /\ LET r == loadSync(fs, env, envPath, export) IN
       /\ env' = r.env
       /\ call' = [call EXCEPT ![t] =
            [NewCall("loadSync", envPath, export) EXCEPT
               !.pc = IF r.threw THEN "threw" ELSE "returned",
               !.reads = r.reads, !.error = r.error, !.result = r.conf,
               !.wrote = r.wrote]]
  /\ UNCHANGED <<fs, SET_VARIABLES>>

\* load(options) up to its await: a falsy path returns {} without reading.
LoadCall(t, envPath, export) ==
  /\ call[t].pc = "idle"
  /\ call' = [call EXCEPT ![t] =
       [NewCall("load", envPath, export) EXCEPT
          !.pc = IF Truthy(DefaultEnvPath(envPath)) THEN "load_await"
                 ELSE "returned",
          !.reads = LoadReads(envPath)]]
  /\ UNCHANGED <<env, fs, SET_VARIABLES>>

\* load(options) after its await: the read result, the export loop, return.
LoadResume(t) ==
  /\ call[t].pc = "load_await"
  /\ LET p == LoadConf(fs, call[t].envPath) IN
       /\ env' = IF p.threw THEN env ELSE LoadExport(p.conf, call[t].export, env)
       /\ call' = [call EXCEPT ![t].pc = IF p.threw THEN "threw" ELSE "returned",
                               ![t].error = p.error, ![t].result = p.conf,
                               ![t].wrote = IF p.threw \/ ~call[t].export THEN {}
                                            ELSE ExportWritten(p.conf, env)]
  /\ UNCHANGED <<fs, SET_VARIABLES>>

\* The console.warn line of the auto-loader modules.
NoReadWarning == "Deno.readTextFileSync is not a function: No .env data was read."

\* The body of load.ts is evaluated (the module is imported): loadSync() with
\* no options when Deno.readTextFileSync is a function, a warning otherwise.
ImportLoad(t, isFunction) ==
  /\ call[t].pc = "idle"
  /\ LET r == loadSync(fs, env, Undefined, FALSE) IN
       IF isFunction
         THEN /\ env' = r.env
              /\ call' = [call EXCEPT ![t] =
                   [NewCall("load.ts", Undefined, FALSE) EXCEPT
                      !.pc = IF r.threw THEN "threw" ELSE "returned",
                      !.reads = r.reads, !.error = r.error,
                      !.wrote = r.wrote]]
         ELSE /\ env' = env
              /\ call' = [call EXCEPT ![t] =
                   [NewCall("load.ts", Undefined, FALSE) EXCEPT
                      !.pc = "returned", !.warn = <<NoReadWarning>>]]
  /\ UNCHANGED <<fs, SET_VARIABLES>>

\* loadEnvSync(), one synchronous step.
LoadEnvSyncCall(t) ==
  /\ CanStartLayered(t)
  /\ LET r == loadEnvSync(fs, env, SET_VARIABLES) IN
       /\ env' = r.env
       /\ SET_VARIABLES' = r.set
       /\ call' = [call EXCEPT ![t] =
            [NewLayeredCall(t, "loadEnvSync") EXCEPT
               !.pc = IF r.threw THEN "threw" ELSE "returned",
               !.nodeEnv = r.nodeEnv, !.reads = r.reads, !.error = r.error,
               !.log = r.log, !.wrote = r.wrote]]
  /\ UNCHANGED fs

\* mod() up to the await of the base load: NODE_ENV is read, the base read
\* is started.
ModCall(t) ==
  /\ CanStartLayered(t)
  /\ call' = [call EXCEPT ![t] =
       [NewLayeredCall(t, "mod") EXCEPT
          !.pc = "mod_base_await", !.nodeEnv = env["NODE_ENV"],
          !.reads = LoadReads(Undefined)]]
  /\ UNCHANGED <<env, fs, SET_VARIABLES>>

\* The base load of mod() resumes: read result and export loop.
ModBaseResume(t) ==
  /\ call[t].pc = "mod_base_await"
  /\ LET p == LoadConf(fs, Undefined) IN
       /\ env' = IF p.threw THEN env ELSE LoadExport(p.conf, TRUE, env)
       /\ call' = [call EXCEPT ![t].pc = IF p.threw THEN "threw"
                                         ELSE "mod_base_loaded",
                               ![t].error = p.error, ![t].conf = p.conf,
                               ![t].wrote = IF p.threw THEN {}
                                            ELSE ExportWritten(p.conf, env)]
  /\ UNCHANGED <<fs, SET_VARIABLES>>

\* Variant of mod() after the base load that adds the base keys to the
\* tracking set as it was when the call started.
ModAfterBase_StaleSet(t) ==
  /\ call[t].pc = "mod_base_loaded"
  /\ SET_VARIABLES' = TrackBase(call[t].conf, call[t].set0)
  /\ call' = [call EXCEPT ![t] =
       IF Truthy(call[t].nodeEnv)
         THEN [call[t] EXCEPT
                 !.pc = "mod_overlay_await",
                 !.reads = @ \o LoadReads(OverlayPath(call[t].nodeEnv))]
         ELSE [call[t] EXCEPT
                 !.pc = "returned", !.log = <<Summary(SET_VARIABLES')>>]]
  /\ UNCHANGED <<env, fs>>

\* mod() resumes after the base load: track the base keys, then start the
\* overlay load or log and return.
ModAfterBase(t) ==
  /\ call[t].pc = "mod_base_loaded"
  /\ SET_VARIABLES' = TrackBase(call[t].conf, SET_VARIABLES)
  /\ call' = [call EXCEPT ![t] =
       IF Truthy(call[t].nodeEnv)
         THEN [call[t] EXCEPT
                 !.pc = "mod_overlay_await",
                 !.reads = @ \o LoadReads(OverlayPath(call[t].nodeEnv))]
         ELSE [call[t] EXCEPT
                 !.pc = "returned", !.log = <<Summary(SET_VARIABLES')>>]]
  /\ UNCHANGED <<env, fs>>

\* The overlay load of mod() resumes: read result, no export.
ModOverlayResume(t) ==
  /\ call[t].pc = "mod_overlay_await"
  /\ LET p == LoadConf(fs, OverlayPath(call[t].nodeEnv)) IN
       call' = [call EXCEPT ![t].pc = IF p.threw THEN "threw"
                                      ELSE "mod_overlay_loaded",
                            ![t].error = p.error, ![t].conf = p.conf]
  /\ UNCHANGED <<env, fs, SET_VARIABLES>>

\* mod() resumes after the overlay load: merge loop, log, return.
ModAfterOverlay(t) ==
  /\ call[t].pc = "mod_overlay_loaded"
  /\ LET m == OverlayLoop(call[t].conf, env, SET_VARIABLES) IN
       /\ env' = m.env
       /\ SET_VARIABLES' = m.set
       /\ call' = [call EXCEPT ![t].pc = "returned",
                               ![t].log = <<Summary(m.set)>>,
                               ![t].wrote = @ \cup OverlayWritten(call[t].conf, env,
                                                                  SET_VARIABLES)]
  /\ UNCHANGED fs

\* The caller continues after a completed call: its record is dropped.
Return(t) ==
  /\ call[t].pc \in {"returned", "threw"}
  /\ call' = [call EXCEPT ![t] = IdleCall]
  /\ UNCHANGED <<env, fs, SET_VARIABLES>>

AllIdle == \A t \in Tasks : call[t].pc = "idle"

\* The program sets a variable itself (Deno.env.set) between loader calls.
EnvSet(k, v) ==
  /\ AllIdle
  /\ env[k] # v
  /\ env' = [env EXCEPT ![k] = v]
  /\ UNCHANGED <<fs, SET_VARIABLES, call>>

\* The program deletes a variable (Deno.env.delete) between loader calls.
EnvDelete(k) ==
  /\ AllIdle
  /\ env[k] # Undefined
  /\ env' = [env EXCEPT ![k] = Undefined]
  /\ UNCHANGED <<fs, SET_VARIABLES, call>>

\* Right after a layered load of task t returned, the base file is rewritten
\* with another value v for a key k that call exported from it; the call
\* record is dropped, except for the keys that call exported from the base
\* file, the base mapping it read and the keys of the overlay it merged.
RewriteBase(t, k, v) ==
  /\ call[t].op \in {"loadEnvSync", "mod"}
  /\ call[t].pc = "returned"
  /\ LET old == readTextFile(fs, ".env") IN
       /\ old.err = NoError
       /\ k \in ExportWritten(old.conf, call[t].env0)
       /\ ConfigGet(old.conf, k) # v
       /\ fs' = [fs EXCEPT ![".env"] =
            [err |-> NoError,
             conf |-> [i \in 1..Len(old.conf) |->
                         IF old.conf[i][1] = k THEN <<k, v>> ELSE old.conf[i]]]]
       /\ call' = [call EXCEPT ![t] =
            [IdleCall EXCEPT
               !.pc = "rewritten",
               !.prevExported = ExportWritten(old.conf, call[t].env0),
               !.prevBase = old.conf,
               !.prevOverlay =
                 IF Truthy(call[t].nodeEnv)
                   THEN ConfigKeys(readTextFile(fs, OverlayPath(call[t].nodeEnv)).conf)
                   ELSE {}]]
  /\ UNCHANGED <<env, SET_VARIABLES>>

\* A file is written, removed or replaced between loader calls.
WriteFile(path, state) ==
  /\ AllIdle
  /\ fs[path] # state
  /\ fs' = [fs EXCEPT ![path] = state]
  /\ UNCHANGED <<env, SET_VARIABLES, call>>

Next ==
  \/ \E t \in SeqTasks, envPath \in PathOptions, export \in BOOLEAN :
       LoadSyncCall(t, envPath, export)
  \/ \E t \in SeqTasks, envPath \in PathOptions, export \in BOOLEAN :
       LoadCall(t, envPath, export)
  \/ \E t \in SeqTasks : LoadResume(t)
  \/ \E t \in SeqTasks, isFunction \in BOOLEAN : ImportLoad(t, isFunction)
  \/ \E t \in SeqTasks : LoadEnvSyncCall(t)
  \/ \E t \in SeqTasks : ModCall(t)
  \/ \E t \in SeqTasks : ModBaseResume(t)
  \/ \E t \in SeqTasks : ModAfterBase(t)
  \/ \E t \in SeqTasks : ModOverlayResume(t)
  \/ \E t \in SeqTasks : ModAfterOverlay(t)
  \/ \E t \in SeqTasks : Return(t)
  \/ \E k \in Keys : \E v \in EnvValues(k) : EnvSet(k, v)
  \/ \E k \in Keys : EnvDelete(k)
  \/ \E path \in Paths, state \in FileStates : WriteFile(path, state)
  \/ \E t \in SeqTasks, k \in Keys, v \in Values : RewriteBase(t, k, v)

Spec == Init /\ [][Next]_vars

\* isEnvVarTruthy(key), one synchronous step.
IsEnvVarTruthyCall(t, key) ==
  /\ call[t].pc = "idle"
  /\ call' = [call EXCEPT ![t] =
       [NewCall("isEnvVarTruthy", Undefined, FALSE) EXCEPT
          !.pc = "returned", !.key = key, !.truthy = isEnvVarTruthy(env, key)]]
  /\ UNCHANGED <<env, fs, SET_VARIABLES>>

\* isTruthyString(value), one synchronous step.
IsTruthyStringCall(t, value) ==
  /\ call[t].pc = "idle"
  /\ call' = [call EXCEPT ![t] =
       [NewCall("isTruthyString", Undefined, FALSE) EXCEPT
          !.pc = "returned", !.key = value,
          !.truthy = isTruthyString(Chars(value))]]
  /\ UNCHANGED <<env, fs, SET_VARIABLES>>

\* The utility functions applied in every environment over Samples.
InitUtils ==
  /\ env \in [Keys -> Samples \cup {Undefined}]
  /\ fs = [path \in Paths |-> [err |-> NotFound, conf |-> <<>>]]
  /\ SET_VARIABLES = <<>>
  /\ call = [t \in Tasks |-> IdleCall]

NextUtils ==
  \/ \E t \in SeqTasks, key \in Keys : IsEnvVarTruthyCall(t, key)
  \/ \E t \in SeqTasks, value \in Samples : IsTruthyStringCall(t, value)
  \/ \E t \in SeqTasks : Return(t)

SpecUtils == InitUtils /\ [][NextUtils]_vars

\* ------------------------------------------------------------------------
\* Two overlapping mod() calls
\* ------------------------------------------------------------------------

\* The tracking sets earlier layered loads can have left.
TrackingSets ==
  {<<>>, <<"K">>, <<"NODE_ENV">>, <<"NODE_ENV", "K">>, <<"K", "NODE_ENV">>}

InitOverlap ==
  /\ env \in Envs
  /\ fs \in [Paths -> FileStates]
  /\ SET_VARIABLES \in TrackingSets
  /\ call = [t \in Tasks |-> IdleCall]

\* The call of task t has started and has not completed.
InFlight(t) == call[t].pc \notin {"idle", "returned", "threw"}

\* mod() is called by task 1 first and by task 2 while the call of task 1 is
\* suspended at one of its awaits.
OverlapModCall(t) ==
  /\ call[t].pc = "idle"
  /\ IF t = 1 THEN call[2].pc = "idle" ELSE InFlight(1)
  /\ ModCall(t)

NextOverlap ==
  \/ \E t \in Tasks : OverlapModCall(t)
  \/ \E t \in Tasks : ModBaseResume(t)
  \/ \E t \in Tasks : ModAfterBase(t)
  \/ \E t \in Tasks : ModOverlayResume(t)
  \/ \E t \in Tasks : ModAfterOverlay(t)

SpecOverlap == InitOverlap /\ [][NextOverlap]_vars

TypeOK ==
  /\ env \in Envs
  /\ fs \in [Paths -> FileStates]
  /\ Range(SET_VARIABLES) \subseteq Keys

\* ------------------------------------------------------------------------
\* Vocabulary of the properties
\* ------------------------------------------------------------------------

\* x is a string with at least one character (not undefined, null or "").
NonEmpty(x) == x \notin {Undefined, Null, ""}

\* The last call of task t has completed (it returned or it threw).
Terminal(t) == call[t].pc \in {"returned", "threw"}

Layered(t) == call[t].op \in {"loadEnvSync", "mod"}

SingleFile(t) == call[t].op \in {"loadSync", "load"}

\* Key k is defined by the file at path.
FileHas(path, k) ==
  /\ readTextFile(fs, path).err = NoError
  /\ k \in ConfigKeys(readTextFile(fs, path).conf)

FileValue(path, k) == ConfigGet(readTextFile(fs, path).conf, k)

\* NODE_ENV as it was when the call of task t started.
Indicator(t) == call[t].env0["NODE_ENV"]

\* Key k is mentioned by the overlay file .env.<NODE_ENV> of the call of task t.
OverlayHas(t, k) ==
  NonEmpty(Indicator(t)) /\ FileHas(OverlayPath(Indicator(t)), k)

\* The path a load/loadSync call of task t was asked to read.
CallPath(t) == DefaultEnvPath(call[t].envPath)

\* ------------------------------------------------------------------------
\* Properties
\* ------------------------------------------------------------------------

\* C1: a completed layered load (loadEnvSync or mod) leaves every variable
\* that had a value in the environment when the call started at that value.
C1_PresentNeverOverridden ==
  \A t \in Tasks :
    (Layered(t) /\ Terminal(t)) =>
      \A k \in Keys : call[t].env0[k] # Undefined => env[k] = call[t].env0[k]

\* C2: after load/loadSync with export=true has returned, every key of the
\* file's mapping that had an environment entry before the call (the empty
\* string included) is unchanged, every key that had none holds the file's
\* value, and the returned mapping holds the file's value for the key.
C2_BaseMergeRule ==
  \A t \in Tasks :
    (SingleFile(t) /\ call[t].export /\ call[t].pc = "returned"
       /\ NonEmpty(CallPath(t))) =>
      \A k \in Keys :
        FileHas(CallPath(t), k) =>
          /\ call[t].env0[k] # Undefined => env[k] = call[t].env0[k]
          /\ call[t].env0[k] = Undefined => env[k] = FileValue(CallPath(t), k)
          /\ k \in ConfigKeys(call[t].result)
          /\ ConfigGet(call[t].result, k) = FileValue(CallPath(t), k)

\* C2 witness: an exporting load returned from a file with two keys, one kept
\* at its differing prior value (the empty string), one exported as "".
C2_Witness ==
  \E t \in Tasks : \E k1, k2 \in Keys :
    /\ SingleFile(t) /\ call[t].export /\ call[t].pc = "returned"
    /\ NonEmpty(CallPath(t))
    /\ FileHas(CallPath(t), k1) /\ FileHas(CallPath(t), k2)
    /\ call[t].env0[k1] = "" /\ FileValue(CallPath(t), k1) = "dev"
    /\ env[k1] = ""
    /\ call[t].env0[k2] = Undefined /\ FileValue(CallPath(t), k2) = ""
    /\ env[k2] = ""

\* C3: when a layered load returns, NODE_ENV was non-empty at its start, and
\* key K, absent from the environment at the start, is defined by both the
\* base file and the overlay file, then env[K] is the overlay file's value.
C3_OverlayOverridesBase ==
  \A t \in Tasks :
    (Layered(t) /\ call[t].pc = "returned" /\ NonEmpty(Indicator(t))) =>
      \A k \in Keys :
        (FileHas(".env", k) /\ OverlayHas(t, k) /\ call[t].env0[k] = Undefined)
          => env[k] = FileValue(OverlayPath(Indicator(t)), k)

\* C3 witness: such a call returned where base and overlay values differ.
C3_Witness ==
  \E t \in Tasks : \E k \in Keys :
    /\ Layered(t) /\ call[t].pc = "returned" /\ NonEmpty(Indicator(t))
    /\ FileHas(".env", k) /\ OverlayHas(t, k) /\ call[t].env0[k] = Undefined
    /\ FileValue(".env", k) = "dev"
    /\ FileValue(OverlayPath(Indicator(t)), k) = ""
    /\ env[k] = ""

\* C4: when a layered load completes, a key that was untracked and had an
\* environment value (any string, the empty one included) at the start, and
\* that only the overlay file defines, still has that value.
C4_OverlayKeepsUntrackedExternal ==
  \A t \in Tasks :
    (Layered(t) /\ Terminal(t)) =>
      \A k \in Keys :
        (/\ k \notin Range(call[t].set0)
         /\ call[t].env0[k] # Undefined
         /\ OverlayHas(t, k)
         /\ ~FileHas(".env", k))
          => env[k] = call[t].env0[k]

\* C5: when a layered load completes, every key that had an environment value
\* at the start and is not mentioned by the overlay file still has it.
C5_FrameOutsideOverlay ==
  \A t \in Tasks :
    (Layered(t) /\ Terminal(t)) =>
      \A k \in Keys :
        (call[t].env0[k] # Undefined /\ ~OverlayHas(t, k))
          => env[k] = call[t].env0[k]

\* C5 witness: the base file defines another value for a present key, the
\* overlay is loaded and defines only other keys, and the key is unchanged.
C5_Witness ==
  \E t \in Tasks : \E k \in Keys :
    /\ Layered(t) /\ call[t].pc = "returned" /\ NonEmpty(Indicator(t))
    /\ call[t].env0[k] = "dev"
    /\ FileHas(".env", k) /\ FileValue(".env", k) = ""
    /\ ~OverlayHas(t, k)
    /\ \E j \in Keys : OverlayHas(t, j)
    /\ env[k] = "dev"

\* C6: load/loadSync of a path at which no file exists returns the empty
\* mapping, raises no failure and leaves the environment unchanged, with
\* export=false and with export=true.
C6_MissingFileIsEmpty ==
  \A t \in Tasks :
    (SingleFile(t) /\ Terminal(t) /\ NonEmpty(CallPath(t))
       /\ readTextFile(fs, CallPath(t)).err = NotFound) =>
      /\ call[t].pc = "returned"
      /\ call[t].result = <<>>
      /\ env = call[t].env0

\* C6 witness: the asynchronous load with export=true completed on a missing
\* file while the environment lacks a variable.
C6_Witness ==
  \E t \in Tasks :
    /\ call[t].op = "load" /\ Terminal(t) /\ call[t].export
    /\ NonEmpty(CallPath(t))
    /\ readTextFile(fs, CallPath(t)).err = NotFound
    /\ call[t].reads = <<CallPath(t)>>
    /\ \E k \in Keys : env[k] = Undefined

\* C7: load/loadSync of a path whose read fails with another error than
\* NotFound throws that very error and leaves the environment unchanged,
\* also with export=true.
C7_OtherErrorsPropagate ==
  \A t \in Tasks :
    (SingleFile(t) /\ Terminal(t) /\ NonEmpty(CallPath(t))
       /\ readTextFile(fs, CallPath(t)).err \notin {NoError, NotFound}) =>
      /\ call[t].pc = "threw"
      /\ call[t].error = readTextFile(fs, CallPath(t)).err
      /\ env = call[t].env0

\* C7 witness: an exporting loadSync threw IsADirectory.
C7_Witness ==
  \E t \in Tasks :
    /\ call[t].op = "loadSync" /\ call[t].export /\ call[t].pc = "threw"
    /\ call[t].error = IsADirectory
    /\ readTextFile(fs, CallPath(t)).err = IsADirectory
    /\ \E k \in Keys : env[k] = Undefined

\* C8: load/loadSync with export=false never changes the environment, and a
\* call that returns, with export true or false, returns the parsed mapping
\* of the file it was asked to read (the empty mapping for a falsy path).
C8_NoExportNoChange ==
  \A t \in Tasks :
    SingleFile(t) =>
      /\ ~call[t].export => env = call[t].env0
      /\ call[t].pc = "returned" =>
           call[t].result =
             (IF NonEmpty(CallPath(t)) /\ readTextFile(fs, CallPath(t)).err = NoError
                THEN readTextFile(fs, CallPath(t)).conf ELSE <<>>)

\* C8 witness: a load without export returned keys the environment lacks.
C8_Witness ==
  \E t \in Tasks : \E k \in Keys :
    /\ SingleFile(t) /\ ~call[t].export /\ call[t].pc = "returned"
    /\ k \in ConfigKeys(call[t].result)
    /\ env[k] = Undefined

\* The files a layered load reads when no read fails, from NODE_ENV at its
\* start.
ExpectedReads(t) ==
  IF NonEmpty(Indicator(t))
    THEN <<".env", ".env." \o Indicator(t)>>
    ELSE <<".env">>

\* C9: a layered load reads .env first and then, only if NODE_ENV was
\* non-empty when the call started, the one overlay ".env." followed by that
\* value verbatim: at any moment the reads made so far are a prefix of that
\* list, and they are the whole list when the call returns or fails in the
\* overlay.
C9_FilesRead ==
  \A t \in Tasks :
    Layered(t) =>
      /\ Len(call[t].reads) \in 1..Len(ExpectedReads(t))
      /\ call[t].reads = SubSeq(ExpectedReads(t), 1, Len(call[t].reads))
      /\ call[t].pc = "returned" => call[t].reads = ExpectedReads(t)
      /\ (call[t].pc = "threw" /\ readTextFile(fs, ".env").err \in {NoError, NotFound})
           => call[t].reads = ExpectedReads(t)

\* C9 witness: a layered load returned with path-traversal text in NODE_ENV
\* and read the overlay path built from it.
C9_Witness ==
  \E t \in Tasks :
    /\ Layered(t) /\ call[t].pc = "returned"
    /\ Indicator(t) = Traversal
    /\ call[t].reads = <<".env", ".env.../prod">>

\* C10: the tracking set is empty at the start and no step of any call,
\* successful or failing, removes a key from it.
C10_TrackingSetOnlyGrows ==
  /\ SET_VARIABLES = <<>>
  /\ [][Range(SET_VARIABLES) \subseteq Range(SET_VARIABLES')]_vars

\* C10 witness: a layered load failed in its overlay after the tracking set,
\* not empty before, had grown.
C10_Witness ==
  \E t \in Tasks :
    /\ Layered(t) /\ call[t].pc = "threw"
    /\ call[t].set0 # <<>>
    /\ Len(SET_VARIABLES) > Len(call[t].set0)

\* C11 as stated: when a layered load directly follows a layered load that
\* returned (same files, no other write to the environment) and returns, the
\* tracking set is the one the first call left.
C11_SecondCallAddsNothing ==
  \A t \in Tasks :
    (Layered(t) /\ call[t].follows /\ call[t].pc = "returned") =>
      SET_VARIABLES = call[t].set0

\* C11 amended: the same, provided NODE_ENV had the same value at the start
\* of both calls (the first call did not itself change NODE_ENV).
C11_SecondCallAddsNothingSameIndicator ==
  \A t \in Tasks :
    (Layered(t) /\ call[t].follows /\ call[t].pc = "returned"
       /\ call[t].nodeEnv = call[t].prevNodeEnv) =>
      SET_VARIABLES = call[t].set0

\* C11 witness: a second call with the same non-empty NODE_ENV returned, its
\* overlay defines a key, and the tracking set of two keys is unchanged.
C11_Witness ==
  \E t \in Tasks :
    /\ Layered(t) /\ call[t].follows /\ call[t].pc = "returned"
    /\ call[t].nodeEnv = call[t].prevNodeEnv
    /\ NonEmpty(call[t].nodeEnv)
    /\ \E k \in Keys : OverlayHas(t, k) /\ ~FileHas(".env", k)
    /\ Len(SET_VARIABLES) = 2
    /\ SET_VARIABLES = call[t].set0

RECURSIVE KeyList(_)
\* The keys of s, first to last, separated by a comma and a space.
KeyList(s) ==
  IF Len(s) = 0 THEN ""
  ELSE IF Len(s) = 1 THEN s[1]
  ELSE KeyList(SubSeq(s, 1, Len(s) - 1)) \o ", " \o s[Len(s)]

\* C12: a layered load that returned has emitted exactly one line, "Hydrated
\* environment variables: " followed by the keys of the whole tracking set in
\* insertion order, the keys tracked before the call first; a call that has
\* not returned has emitted none.
C12_SummaryLine ==
  \A t \in Tasks :
    Layered(t) =>
      /\ call[t].pc = "returned" =>
           /\ call[t].log =
                <<"Hydrated environment variables: " \o KeyList(SET_VARIABLES)>>
           /\ Len(call[t].set0) <= Len(SET_VARIABLES)
           /\ SubSeq(SET_VARIABLES, 1, Len(call[t].set0)) = call[t].set0
      /\ call[t].pc # "returned" => call[t].log = <<>>

\* C12 witness: no overlay was loaded, the key tracked by an earlier call is
\* not in the base file, and the line lists it before the key of this call.
C12_Witness ==
  \E t \in Tasks :
    /\ Layered(t) /\ call[t].pc = "returned"
    /\ ~NonEmpty(Indicator(t))
    /\ call[t].set0 = <<"K">> /\ ~FileHas(".env", "K")
    /\ call[t].log = <<"Hydrated environment variables: K, NODE_ENV">>

\* C13: a completed mod() has ended as loadEnvSync() ends from the state
\* mod() started in (environment, tracking set, summary, failure, files
\* read), and a completed load(options) has ended as loadSync(options) ends
\* from the state load started in (returned mapping, environment, failure).
C13_SyncAsyncAgree ==
  \A t \in Tasks :
    /\ (call[t].op = "mod" /\ Terminal(t)) =>
         LET r == loadEnvSync(fs, call[t].env0, call[t].set0) IN
           /\ env = r.env
           /\ SET_VARIABLES = r.set
           /\ call[t].log = r.log
           /\ (call[t].pc = "threw") = r.threw
           /\ call[t].error = r.error
           /\ call[t].reads = r.reads
    /\ (call[t].op = "load" /\ Terminal(t)) =>
         LET r == loadSync(fs, call[t].env0, call[t].envPath, call[t].export) IN
           /\ env = r.env
           /\ (call[t].pc = "threw") = r.threw
           /\ call[t].error = r.error
           /\ call[t].pc = "returned" => call[t].result = r.conf
           /\ call[t].reads = r.reads

\* C13 witness: mod() returned after its base export and its overlay loop
\* both changed the environment and the tracking set grew by two keys.
C13_Witness ==
  \E t \in Tasks :
    /\ call[t].op = "mod" /\ call[t].pc = "returned"
    /\ NonEmpty(call[t].nodeEnv)
    /\ \E k \in Keys :
         /\ call[t].env0[k] = Undefined
         /\ FileHas(".env", k) /\ ~OverlayHas(t, k)
         /\ env[k] = FileValue(".env", k)
    /\ \E k \in Keys : OverlayHas(t, k) /\ env[k] # call[t].env0[k]
    /\ Len(SET_VARIABLES) = Len(call[t].set0) + 2

\* C14: load/loadSync read ".env" when envPath is omitted, no file at all
\* when envPath is null or "" (the result is then the empty mapping and the
\* environment is unchanged, also with export=true), and exactly the given
\* file when envPath is a non-empty path.
C14_PathTriState ==
  \A t \in Tasks :
    SingleFile(t) =>
      /\ call[t].reads =
           (IF call[t].envPath = Undefined THEN <<".env">>
            ELSE IF call[t].envPath \in {Null, ""} THEN <<>>
            ELSE <<call[t].envPath>>)
      /\ call[t].envPath \in {Null, ""} =>
           /\ call[t].pc = "returned"
           /\ call[t].result = <<>>
           /\ env = call[t].env0

\* C14 witness: an exporting call with envPath null returned the empty
\* mapping while .env defines a variable the environment lacks.
C14_Witness ==
  \E t \in Tasks : \E k \in Keys :
    /\ SingleFile(t) /\ call[t].export /\ call[t].envPath = Null
    /\ call[t].pc = "returned" /\ call[t].result = <<>>
    /\ FileHas(".env", k) /\ env[k] = Undefined

\* C15: after load.ts has been imported with Deno.readTextFileSync a
\* function, every key of .env that had no environment value before holds the
\* file's value in the environment, and no overlay file was read.
C15_AutoLoadExports ==
  \A t \in Tasks :
    (call[t].op = "load.ts" /\ Terminal(t) /\ call[t].warn = <<>>) =>
      /\ \A k \in Keys :
           (FileHas(".env", k) /\ call[t].env0[k] = Undefined)
             => env[k] = FileValue(".env", k)
      /\ call[t].reads = <<".env">>

\* The sample values that spell one of the eight truthy words in some case,
\* with nothing before or after it.
TruthySamples ==
  {"true", "t", "1", "y", "yes", "on", "enabled", "active", "TRUE", "True",
   "YES", "YeS", "T", "Y", "ON", "ENABLED", "EnAbLeD", "Active"}

\* C16: isEnvVarTruthy(key) is true exactly when the variable exists and its
\* value is, up to case and untrimmed, one of the eight truthy words; it is
\* false for every other value, for "" and for an absent variable, and for
\* an existing variable it equals isTruthyString of the value.
C16_EnvVarTruthy ==
  \A t \in Tasks :
    (call[t].op = "isEnvVarTruthy" /\ call[t].pc = "returned") =>
      LET value == env[call[t].key] IN
        /\ call[t].truthy = (value # Undefined /\ value \in TruthySamples)
        /\ value # Undefined => call[t].truthy = isTruthyString(Chars(value))

\* C16 witness: a mixed-case truthy value was found truthy while the other
\* variable holds an untrimmed one.
C16_Witness ==
  \E t \in Tasks :
    /\ call[t].op = "isEnvVarTruthy" /\ call[t].pc = "returned"
    /\ call[t].key = "K" /\ env["K"] = "EnAbLeD" /\ call[t].truthy
    /\ env["NODE_ENV"] = " true"

\* Key k is in the tracking set when the overlay loop of the call of task t
\* reaches it: it was tracked before the call or the base file defines it.
TrackedAtOverlay(t, k) == k \in Range(call[t].set0) \/ FileHas(".env", k)

\* The environment value of key k when the overlay loop reaches it: the value
\* at the start of the call, or the base file's value exported for an absent
\* key.
EnvAtOverlay(t, k) ==
  IF call[t].env0[k] # Undefined THEN call[t].env0[k]
  ELSE IF FileHas(".env", k) THEN FileValue(".env", k)
  ELSE Undefined

\* C17: when a layered load with an overlay returns, each overlay key holds
\* the overlay value if it was tracked or had no environment entry when the
\* loop reached it, and in every other case holds the value it had then.
C17_OverlayPrecedence ==
  \A t \in Tasks :
    (Layered(t) /\ call[t].pc = "returned") =>
      \A k \in Keys :
        OverlayHas(t, k) =>
          IF TrackedAtOverlay(t, k) \/ EnvAtOverlay(t, k) = Undefined
            THEN env[k] = FileValue(OverlayPath(Indicator(t)), k)
            ELSE env[k] = EnvAtOverlay(t, k)

\* The keys of the base file the call of task t loaded.
BaseKeys == {k \in Keys : FileHas(".env", k)}

\* The overlay keys for which the write condition of the code held: tracked
\* when the loop reached them, or with an absent or empty environment value.
OverlayKeysWritten(t) ==
  {k \in Keys :
     /\ OverlayHas(t, k)
     /\ (TrackedAtOverlay(t, k) \/ EnvAtOverlay(t, k) \in {Undefined, ""})}

C19_TrackedIffWritten ==
  \A t \in Tasks :
    (Layered(t) /\ Terminal(t) /\ call[t].set0 = <<>>) =>
      Range(SET_VARIABLES) = call[t].wrote

\* C20 as stated: NODE_ENV is read after the base export, so a layered load
\* that started with NODE_ENV absent and whose base file defines a non-empty
\* NODE_ENV=X reads the overlay .env.X in that same call.
C20_IndicatorReadAfterBase ==
  \A t \in Tasks :
    ( /\ Layered(t) /\ call[t].pc = "returned"
      /\ call[t].env0["NODE_ENV"] = Undefined
      /\ FileHas(".env", "NODE_ENV")
      /\ NonEmpty(FileValue(".env", "NODE_ENV")) )
    => call[t].reads = <<".env", ".env." \o FileValue(".env", "NODE_ENV")>>

\* C20 amended: the indicator a layered load uses is the value NODE_ENV had
\* when the call started, before the base file is loaded; a call that started
\* with NODE_ENV absent and whose base file defines a non-empty NODE_ENV=X
\* exports NODE_ENV=X but reads the base file only.
C20_IndicatorReadBeforeBase ==
  \A t \in Tasks :
    Layered(t) =>
      /\ call[t].nodeEnv = call[t].env0["NODE_ENV"]
      /\ ( /\ call[t].pc = "returned"
           /\ call[t].env0["NODE_ENV"] = Undefined
           /\ FileHas(".env", "NODE_ENV")
           /\ NonEmpty(FileValue(".env", "NODE_ENV")) )
         => /\ call[t].reads = <<".env">>
            /\ env["NODE_ENV"] = FileValue(".env", "NODE_ENV")

\* C20 witness: a layered load returned that started with NODE_ENV absent,
\* whose base file defines NODE_ENV=dev and whose .env.dev exists and defines
\* a key; it exported NODE_ENV=dev and did not read .env.dev.
C20_Witness ==
  \E t \in Tasks :
    /\ Layered(t) /\ call[t].pc = "returned"
    /\ call[t].env0["NODE_ENV"] = Undefined
    /\ FileHas(".env", "NODE_ENV") /\ FileValue(".env", "NODE_ENV") = "dev"
    /\ FileHas(".env.dev", "K")
    /\ env["NODE_ENV"] = "dev"
    /\ call[t].reads = <<".env">>

\* The layered load of task t found a readable (or missing) base file and an
\* overlay whose read fails with another error than NotFound.
OverlayFails(t) ==
  /\ Layered(t) /\ Terminal(t)
  /\ readTextFile(fs, ".env").err \in {NoError, NotFound}
  /\ NonEmpty(Indicator(t))
  /\ readTextFile(fs, ".env." \o Indicator(t)).err \notin {NoError, NotFound}

\* C21: when the base file loads and the overlay read fails with another
\* error than NotFound, the layered load throws that error; the environment
\* is the one at the start plus the base values of the keys that were absent,
\* the tracking set is the one at the start plus every base key, and nothing
\* else was written.
C21_NoRollbackOnOverlayFailure ==
  \A t \in Tasks :
    OverlayFails(t) =>
      /\ call[t].pc = "threw"
      /\ call[t].error = readTextFile(fs, ".env." \o Indicator(t)).err
      /\ \A k \in Keys :
           env[k] = IF call[t].env0[k] = Undefined /\ FileHas(".env", k)
                      THEN FileValue(".env", k)
                      ELSE call[t].env0[k]
      /\ Range(SET_VARIABLES) =
           Range(call[t].set0) \cup {k \in Keys : FileHas(".env", k)}

\* C21 witness: a layered load threw IsADirectory from its overlay after the
\* base export had written a key that was absent and untracked before.
C21_Witness ==
  \E t \in Tasks : \E k \in Keys :
    /\ OverlayFails(t) /\ call[t].pc = "threw" /\ call[t].error = IsADirectory
    /\ FileHas(".env", k) /\ FileValue(".env", k) = "dev"
    /\ call[t].env0[k] = Undefined /\ env[k] = "dev"
    /\ k \notin Range(call[t].set0) /\ k \in Range(SET_VARIABLES)

\* C22: a load/loadSync call leaves the tracking set as it was when the call
\* started, whatever its options and outcome, and its export depends on the
\* environment and the file only (a tracked key that has a value is not
\* overwritten); a later layered load treats a key that is present and
\* untracked when it starts in one way, whether the key was set from outside
\* or exported by a directly preceding load/loadSync: the key keeps its value
\* unless the overlay file defines it and the key is in the base file or its
\* value is empty.
C22_LoadIgnoresTrackingSet ==
  \A t \in Tasks :
    /\ SingleFile(t) => SET_VARIABLES = call[t].set0
    /\ (SingleFile(t) /\ call[t].pc = "returned") =>
         \A k \in Keys :
           env[k] = IF /\ call[t].export
                       /\ call[t].env0[k] = Undefined
                       /\ FileHas(CallPath(t), k)
                      THEN FileValue(CallPath(t), k)
                      ELSE call[t].env0[k]
    /\ (Layered(t) /\ call[t].pc = "returned") =>
         \A k \in Keys :
           (call[t].env0[k] # Undefined /\ k \notin Range(call[t].set0)) =>
             env[k] = IF /\ OverlayHas(t, k)
                         /\ (FileHas(".env", k) \/ call[t].env0[k] = "")
                        THEN FileValue(".env." \o Indicator(t), k)
                        ELSE call[t].env0[k]

\* C22 witness: a layered load returned directly after a load/loadSync that
\* had exported key k, untracked; the overlay file defines k, and the overlay
\* step neither wrote nor tracked k.
C22_Witness ==
  \E t \in Tasks : \E k \in Keys :
    /\ Layered(t) /\ call[t].pc = "returned"
    /\ k \in call[t].prevWrote /\ k \notin Range(call[t].set0)
    /\ call[t].env0[k] = "dev"
    /\ OverlayHas(t, k)
    /\ env[k] = "dev"
    /\ k \notin call[t].wrote
    /\ k \notin Range(SET_VARIABLES)

\* C23: no step of a loader call changes or tracks a key that has a non-empty
\* value, is untracked and is not defined by the base file; as the tracking
\* set is empty before the first layered load, such a key keeps its value and
\* stays untracked over any sequence of calls, whatever the overlays and
\* NODE_ENV are.
C23_PureExternalProtected ==
  [][\A k \in Keys :
       ( /\ call' # call
         /\ NonEmpty(env[k])
         /\ k \notin Range(SET_VARIABLES)
         /\ ~FileHas(".env", k) )
       => /\ env'[k] = env[k]
          /\ k \notin Range(SET_VARIABLES')]_vars

\* C23 witness: the second of two consecutive layered loads returned; key k
\* had the value "dev" and was untracked when it started, the base file does
\* not define k, the overlay file defines k as "", and k still is "dev" and
\* untracked.
C23_Witness ==
  \E t \in Tasks : \E k \in Keys :
    /\ Layered(t) /\ call[t].pc = "returned" /\ call[t].follows
    /\ call[t].env0[k] = "dev" /\ k \notin Range(call[t].set0)
    /\ ~FileHas(".env", k)
    /\ OverlayHas(t, k) /\ FileValue(".env." \o Indicator(t), k) = ""
    /\ env[k] = "dev" /\ k \notin Range(SET_VARIABLES)

\* The layered load of task t returned; an earlier layered load had exported
\* key k from the base file, whose value for k was changed before this call,
\* and the overlay this call loaded (if any) does not define k.
StickyCase(t, k) ==
  /\ Layered(t) /\ call[t].pc = "returned"
  /\ k \in call[t].prevExported
  /\ FileHas(".env", k)
  /\ FileValue(".env", k) # ConfigGet(call[t].prevBase, k)
  /\ ~OverlayHas(t, k)

\* C24 as stated: in that case env[k] is the base value v1 the earlier call
\* exported.
C24_BaseValueSticky ==
  \A t \in Tasks : \A k \in Keys :
    StickyCase(t, k) => env[k] = ConfigGet(call[t].prevBase, k)

\* C24 amended: in that case env[k] is the value k had when the later call
\* started, not the new base value; it is the value v1 the earlier call
\* exported unless the overlay of that earlier call defined k and so had
\* replaced v1.
C24_ExportedValueSticky ==
  \A t \in Tasks : \A k \in Keys :
    StickyCase(t, k) =>
      /\ env[k] = call[t].env0[k]
      /\ k \notin call[t].prevOverlay => env[k] = ConfigGet(call[t].prevBase, k)

\* C24 witness: the earlier call exported k = "dev" from the base file, the
\* base file now says k = "", and after the later call k still is "dev".
C24_Witness ==
  \E t \in Tasks : \E k \in Keys :
    /\ StickyCase(t, k)
    /\ k \notin call[t].prevOverlay
    /\ ConfigGet(call[t].prevBase, k) = "dev"
    /\ FileValue(".env", k) = ""
    /\ env[k] = "dev"

\* Two layered loads run one after the other from environment e and tracking
\* set s: the outcome of the first and the outcome of the second.
FirstAlone(e, s) == loadEnvSync(fs, e, s)

OneAfterTheOther(e, s) ==
  loadEnvSync(fs, FirstAlone(e, s).env, FirstAlone(e, s).set)

\* Both overlapping mod() calls have completed.
BothDone == \A t \in Tasks : call[t].op = "mod" /\ Terminal(t)

\* C25 as stated: when two overlapping mod() calls have completed, the
\* environment and the tracking set are those that running the two calls one
\* after the other from the same start gives.
C25_OverlapSerialisable ==
  BothDone =>
    /\ env = OneAfterTheOther(call[1].env0, call[1].set0).env
    /\ Range(SET_VARIABLES) =
         Range(OneAfterTheOther(call[1].env0, call[1].set0).set)

\* C25 amended: the same, provided a single call run alone from the start
\* leaves NODE_ENV at the value it had at the start, so that the second of
\* two consecutive calls reads the indicator the first one read.
C25_OverlapSerialisableSameIndicator ==
  ( /\ BothDone
    /\ FirstAlone(call[1].env0, call[1].set0).env["NODE_ENV"]
         = call[1].env0["NODE_ENV"] )
  => /\ env = OneAfterTheOther(call[1].env0, call[1].set0).env
     /\ Range(SET_VARIABLES) =
          Range(OneAfterTheOther(call[1].env0, call[1].set0).set)

\* C25 witness: two mod() calls that both started before either resumed have
\* returned; both merged an overlay, which wrote a key and added a key to the
\* tracking set.
C25_Witness ==
  /\ BothDone
  /\ \A t \in Tasks : call[t].pc = "returned" /\ call[t].env0 = call[1].env0
  /\ NonEmpty(call[1].env0["NODE_ENV"])
  /\ env["NODE_ENV"] = call[1].env0["NODE_ENV"]
  /\ env # call[1].env0
  /\ Len(call[2].reads) = 2
  /\ \E k \in Keys : OverlayHas(1, k) /\ k \notin Range(call[1].set0)
                       /\ k \in Range(SET_VARIABLES) /\ ~FileHas(".env", k)

====
